---------------------------- MODULE Spec2Model ----------------------------
(***************************************************************************)
(* Model of the scripts of the repository:                                 *)
(*   scripts/create_awx_templates.py     (job template reconciliation)     *)
(*   scripts/update_awx_k3s_app_survey.py (survey updater)                 *)
(* A Python str is a sequence of one-character strings; a Python value is  *)
(* a tagged record [t |-> tag, v |-> value].                               *)
(***************************************************************************)
EXTENDS Integers, Sequences, FiniteSets, TLC

(***************************************************************************)
(* Characters and str methods                                              *)
(***************************************************************************)
\* The characters the model uses, in code point order (Python compares str
\* by code point).
Alphabet ==
    << " ", ",", ".", "/", "0", "1", "2", "3", "4", "5", "6", "7", "8", "9", ":",
       "A", "B", "C", "D", "E", "F", "G", "H", "I", "J", "K", "L", "M",
       "N", "O", "P", "Q", "R", "S", "T", "U", "V", "W", "X", "Y", "Z", "_",
       "a", "b", "c", "d", "e", "f", "g", "h", "i", "j", "k", "l", "m",
       "n", "o", "p", "q", "r", "s", "t", "u", "v", "w", "x", "y", "z", "|" >>

Ord(c) == CHOOSE i \in 1..Len(Alphabet) : Alphabet[i] = c

UpperFirst == Ord("A")
LowerFirst == Ord("a")
IsUpper(c) == Ord(c) >= UpperFirst /\ Ord(c) < UpperFirst + 26
IsLower(c) == Ord(c) >= LowerFirst /\ Ord(c) < LowerFirst + 26
IsCased(c) == IsUpper(c) \/ IsLower(c)
ToUpper(c) == IF IsLower(c) THEN Alphabet[Ord(c) - LowerFirst + UpperFirst] ELSE c
ToLower(c) == IF IsUpper(c) THEN Alphabet[Ord(c) - UpperFirst + LowerFirst] ELSE c

\* s < t for str (lexicographic by code point)
RECURSIVE StrLess(_, _)
StrLess(s, t) ==
    IF t = <<>> THEN FALSE
    ELSE IF s = <<>> THEN TRUE
    ELSE IF Ord(Head(s)) # Ord(Head(t)) THEN Ord(Head(s)) < Ord(Head(t))
    ELSE StrLess(Tail(s), Tail(t))

\* str.replace(old, new) for one-character old and new
StrReplace(s, old, new) == [i \in 1..Len(s) |-> IF s[i] = old THEN new ELSE s[i]]

\* str.title(): a cased character is upper-cased when the character before it
\* is not cased, lower-cased otherwise
StrTitle(s) ==
    [i \in 1..Len(s) |->
        IF i > 1 /\ IsCased(s[i-1]) THEN ToLower(s[i]) ELSE ToUpper(s[i])]

\* sub in s
Contains(s, sub) ==
    \E i \in 0..(Len(s) - Len(sub)) : SubSeq(s, i + 1, i + Len(sub)) = sub

\* s.endswith(suffix)
EndsWith(s, suffix) ==
    /\ Len(s) >= Len(suffix)
    /\ SubSeq(s, Len(s) - Len(suffix) + 1, Len(s)) = suffix

\* sep.join(parts)
RECURSIVE Join(_, _)
Join(sep, parts) ==
    IF parts = <<>> THEN <<>>
    ELSE IF Len(parts) = 1 THEN parts[1]
    ELSE parts[1] \o sep \o Join(sep, Tail(parts))

\* Path(p).name: the final path segment
PathName(p) ==
    LET slashes == {i \in 1..Len(p) : p[i] = "/"}
        last == IF slashes = {} THEN 0
                ELSE CHOOSE i \in slashes : \A j \in slashes : j <= i
    IN SubSeq(p, last + 1, Len(p))

\* Path(p).stem: the final segment without its last suffix (a leading dot
\* starts no suffix)
PathStem(p) ==
    LET name == PathName(p)
        dots == {i \in 2..Len(name) : name[i] = "."}
        last == IF dots = {} THEN Len(name) + 1
                ELSE CHOOSE i \in dots : \A j \in dots : j <= i
    IN SubSeq(name, 1, last - 1)

\* sorted(...) of a finite set of str
RECURSIVE SortedStrs(_)
SortedStrs(S) ==
    IF S = {} THEN <<>>
    ELSE LET m == CHOOSE x \in S : \A y \in S \ {x} : StrLess(x, y)
         IN <<m>> \o SortedStrs(S \ {m})

(***************************************************************************)
(* Python values                                                           *)
(***************************************************************************)
PyNone == [t |-> "none", v |-> 0]
PyStr(s) == [t |-> "str", v |-> s]
PyInt(n) == [t |-> "int", v |-> n]
PyBool(b) == [t |-> "bool", v |-> b]
PyList(xs) == [t |-> "list", v |-> xs]
\* a dict keeps insertion order: a sequence of <<key, value>> pairs, keys str
PyDict(items) == [t |-> "dict", v |-> items]
\* a raised exception, as the outcome of an evaluation
Raise(e) == [t |-> "raise", v |-> e]
IsRaise(x) == "t" \in DOMAIN x /\ x.t = "raise"

\* bool(x)
Truthy(x) ==
    CASE x.t = "none" -> FALSE
      [] x.t = "bool" -> x.v
      [] x.t = "int" -> x.v # 0
      [] OTHER -> x.v # <<>>

\* key in d
DictHas(d, key) == \E i \in 1..Len(d.v) : d.v[i][1] = key
\* d[key]
DictItem(d, key) == d.v[CHOOSE i \in 1..Len(d.v) : d.v[i][1] = key][2]
\* d.get(key, default)
DictGet(d, key, default) == IF DictHas(d, key) THEN DictItem(d, key) ELSE default

\* int(s) for a str: decimal digits, else ValueError
Digits == <<"0", "1", "2", "3", "4", "5", "6", "7", "8", "9">>
DigitVal(c) == (CHOOSE i \in 1..Len(Digits) : Digits[i] = c) - 1
IsDigit(c) == \E i \in 1..Len(Digits) : Digits[i] = c
RECURSIVE DigitsVal(_)
DigitsVal(s) ==
    IF s = <<>> THEN 0 ELSE DigitsVal(SubSeq(s, 1, Len(s) - 1)) * 10 + DigitVal(s[Len(s)])
IsIntStr(s) == s # <<>> /\ \A i \in 1..Len(s) : IsDigit(s[i])
ParseInt(s) == IF IsIntStr(s) THEN PyInt(DigitsVal(s)) ELSE Raise("ValueError")

(***************************************************************************)
(* String constants of the scripts                                         *)
(***************************************************************************)
K_name == <<"n", "a", "m", "e">>
K_hosts == <<"h", "o", "s", "t", "s">>
K_vars == <<"v", "a", "r", "s">>
K_filepath == <<"f", "i", "l", "e", "p", "a", "t", "h">>
K_k3s_context == <<"k", "3", "s", "_", "c", "o", "n", "t", "e", "x", "t">>
K_esphome_namespace == <<"e", "s", "p", "h", "o", "m", "e", "_", "n", "a", "m", "e", "s", "p", "a", "c", "e">>
K_esphome_deployment_name == <<"e", "s", "p", "h", "o", "m", "e", "_", "d", "e", "p", "l", "o", "y", "m", "e", "n", "t", "_", "n", "a", "m", "e">>
K_esphome_timeout == <<"e", "s", "p", "h", "o", "m", "e", "_", "t", "i", "m", "e", "o", "u", "t">>
K_esphome_no_logs == <<"e", "s", "p", "h", "o", "m", "e", "_", "n", "o", "_", "l", "o", "g", "s">>
S_localhost == <<"l", "o", "c", "a", "l", "h", "o", "s", "t">>
S_patterns == <<"_", "p", "a", "t", "t", "e", "r", "n", "s">>
S_PatternsPrefix == <<"P", "a", "t", "t", "e", "r", "n", "s", ":", " ">>
S_CommaSpace == <<",", " ">>
S_BarSep == <<" ", "|", " ">>
S_target_device == <<"t", "a", "r", "g", "e", "t", "_", "d", "e", "v", "i", "c", "e">>
S_all == <<"a", "l", "l">>
S_yaml == <<".", "y", "a", "m", "l">>
S_playbook_dir == <<"p", "l", "a", "y", "b", "o", "o", "k", "s", "/", "e", "s", "p", "h", "o", "m", "e">>
S_k3s_applications == <<"k", "3", "s", "_", "a", "p", "p", "l", "i", "c", "a", "t", "i", "o", "n", "s">>
S_deployment_method == <<"d", "e", "p", "l", "o", "y", "m", "e", "n", "t", "_", "m", "e", "t", "h", "o", "d">>
S_maintenance_title == <<"A", "n", "s", "i", "b", "l", "e", " ", "M", "a", "i", "n", "t", "e", "n", "a", "n", "c", "e", " ", "W", "i", "n", "d", "o", "w">>

(***************************************************************************)
(* create_awx_templates.py: PlaybookParser, build_template_data             *)
(***************************************************************************)
\* parse_playbook, given the outcome doc of open(filepath) and yaml.safe_load.
\* The scanned path is relative, so relative_to(Path.cwd()) raises ValueError
\* and rel_path is filepath itself.
parse_playbook(filepath, doc) ==
    IF IsRaise(doc) THEN doc
    ELSE IF ~Truthy(doc) \/ doc.t # "list" THEN PyDict(<<>>)
    ELSE LET play == doc.v[1] IN
         IF play.t # "dict" THEN Raise("AttributeError")
         ELSE PyDict(<< <<K_name, DictGet(play, K_name, PyStr(<<>>))>>,
                        <<K_hosts, DictGet(play, K_hosts, PyStr(S_localhost))>>,
                        <<K_vars, DictGet(play, K_vars, PyDict(<<>>))>>,
                        <<K_filepath, PyStr(filepath)>> >>)

var_keys ==
    << K_k3s_context, K_esphome_namespace, K_esphome_deployment_name,
       K_esphome_timeout, K_esphome_no_logs >>

\* key in playbook_vars, for the types that support it
VarsHas(playbook_vars, key) ==
    CASE playbook_vars.t = "dict" -> DictHas(playbook_vars, key)
      [] playbook_vars.t = "list" ->
            \E i \in 1..Len(playbook_vars.v) : playbook_vars.v[i] = PyStr(key)
      [] playbook_vars.t = "str" -> Contains(playbook_vars.v, key)
      [] OTHER -> FALSE

RECURSIVE ExtractFrom(_, _)
ExtractFrom(playbook_vars, keys) ==
    IF keys = <<>> THEN <<>>
    ELSE (IF DictHas(playbook_vars, Head(keys))
          THEN << <<Head(keys), DictItem(playbook_vars, Head(keys))>> >>
          ELSE <<>>) \o ExtractFrom(playbook_vars, Tail(keys))

\* variant: the keys are compared without regard to case
extract_extra_vars_AnyCase(playbook_vars) ==
    IF playbook_vars.t \notin {"dict", "list", "str"} THEN Raise("TypeError")
    ELSE IF playbook_vars.t # "dict" THEN PyDict(<<>>)
    ELSE LET lower(key) == [j \in DOMAIN key |-> ToLower(key[j])]
             listed(pair) == \E j \in DOMAIN var_keys : lower(pair[1]) = var_keys[j]
         IN PyDict(SelectSeq(playbook_vars.v, listed))

extract_extra_vars(playbook_vars) ==
    IF playbook_vars.t \notin {"dict", "list", "str"} THEN Raise("TypeError")
    ELSE IF playbook_vars.t # "dict"
    THEN IF \E i \in 1..Len(var_keys) : VarsHas(playbook_vars, var_keys[i])
         THEN Raise("TypeError") ELSE PyDict(<<>>)
    ELSE PyDict(ExtractFrom(playbook_vars, var_keys))

AllStr(xs) == \A i \in 1..Len(xs) : xs[i].t = "str"

\* the "Patterns: ..." parts, in the iteration order of the vars
RECURSIVE PatternParts(_, _)
PatternParts(playbook_vars, i) ==
    IF i > Len(playbook_vars.v) THEN <<>>
    ELSE LET key == playbook_vars.v[i][1]
             patterns == playbook_vars.v[i][2]
         IN (IF EndsWith(key, S_patterns) /\ patterns.t = "list"
             THEN << S_PatternsPrefix
                     \o Join(S_CommaSpace, [j \in 1..Len(patterns.v) |-> patterns.v[j].v]) >>
             ELSE <<>>) \o PatternParts(playbook_vars, i + 1)

PatternsJoinable(playbook_vars) ==
    \A i \in 1..Len(playbook_vars.v) :
        (EndsWith(playbook_vars.v[i][1], S_patterns) /\ playbook_vars.v[i][2].t = "list")
            => AllStr(playbook_vars.v[i][2].v)

generate_description(playbook_name, playbook_vars) ==
    IF playbook_vars.t # "dict" THEN Raise("AttributeError")
    ELSE IF ~PatternsJoinable(playbook_vars) \/ playbook_name.t # "str" THEN Raise("TypeError")
    ELSE PyStr(Join(S_BarSep, <<playbook_name.v>> \o PatternParts(playbook_vars, 1)))

\* yaml.dump(d, default_flow_style=False) of a flat dict: the block mapping,
\* one <<key, scalar>> line per key in ascending key order ({} when empty)
yaml_dump(d) ==
    LET keys == SortedStrs({d.v[i][1] : i \in 1..Len(d.v)})
    IN [t |-> "yaml", v |-> [i \in 1..Len(keys) |-> <<keys[i], DictItem(d, keys[i])>>]]

\* template name: the declared name, else derived from the file name
template_name_of(playbook_meta) ==
    LET declared == DictItem(playbook_meta, K_name)
    IN IF Truthy(declared) THEN declared
       ELSE PyStr(StrTitle(StrReplace(PathStem(DictItem(playbook_meta, K_filepath).v), "_", " ")))

\* ask_limit_on_launch is set for these paths
LimitNotApplicable(filepath) ==
    Contains(filepath, S_target_device) \/ Contains(filepath, S_all)

\* build_template_data: the template_data dict (a record; a key that is not
\* set is not in its domain), or the exception raised
build_template_data(playbook_meta, config) ==
    LET template_name == template_name_of(playbook_meta)
        extra_vars == extract_extra_vars(DictItem(playbook_meta, K_vars))
        description == generate_description(DictItem(playbook_meta, K_name),
                                            DictItem(playbook_meta, K_vars))
        inventory == ParseInt(config.inventory_id)
        project == ParseInt(config.project_id)
        filepath == DictItem(playbook_meta, K_filepath).v
        credential == ParseInt(config.credential_id)
        environment == ParseInt(config.execution_environment_id)
        required ==
            [name |-> template_name,
             description |-> description.v,
             job_type |-> "run",
             inventory |-> inventory.v,
             project |-> project.v,
             playbook |-> filepath,
             ask_variables_on_launch |-> TRUE,
             extra_vars |-> yaml_dump(extra_vars)]
    IN  IF IsRaise(extra_vars) THEN extra_vars
        ELSE IF IsRaise(description) THEN description
        ELSE IF IsRaise(inventory) THEN inventory
        ELSE IF IsRaise(project) THEN project
        ELSE IF config.credential_id # <<>> /\ IsRaise(credential) THEN credential
        ELSE IF config.execution_environment_id # <<>> /\ IsRaise(environment) THEN environment
        ELSE required
             @@ (IF config.credential_id # <<>>
                 THEN "credentials" :> <<credential.v>> ELSE <<>>)
             @@ (IF config.execution_environment_id # <<>>
                 THEN "execution_environment" :> environment.v ELSE <<>>)
             @@ (IF LimitNotApplicable(filepath)
                 THEN "ask_limit_on_launch" :> FALSE ELSE <<>>)

\* variant: inventory_id is not among the required settings
validate_config_NoInventory(config) ==
    /\ config.awx_url # <<>>
    /\ config.awx_token # <<>>
    /\ config.project_id # <<>>

\* validate_config of create_awx_templates.py: no required setting is empty
validate_config(config) ==
    /\ config.awx_url # <<>>
    /\ config.awx_token # <<>>
    /\ config.project_id # <<>>
    /\ config.inventory_id # <<>>

\* variant: the paths in descending order
scan_playbooks_Descending(names) ==
    LET yamls == {n \in names : EndsWith(n, S_yaml)}
        ascending == SortedStrs({S_playbook_dir \o <<"/">> \o n : n \in yamls})
    IN [k \in DOMAIN ascending |-> ascending[Len(ascending) + 1 - k]]

\* scan_playbooks: the sorted paths of the *.yaml files of the directory
scan_playbooks(names) ==
    LET yamls == {n \in names : EndsWith(n, S_yaml)}
    IN SortedStrs({S_playbook_dir \o <<"/">> \o n : n \in yamls})

(***************************************************************************)
(* Bounds and inputs                                                       *)
(***************************************************************************)
\* most files in the playbook directory
MaxFiles == 2
\* most calls of create_or_update_template by the direct caller
MaxCalls == 2
\* range(10): status checks of the project sync
PollAttempts == 10

\* values of the settings (environment variables)
TemplateConfigs ==
    [awx_url : {<<>>, <<"u">>},
     awx_token : {<<>>, <<"t">>},
     project_id : {<<>>, <<"7">>},
     inventory_id : {<<>>, <<"2">>, <<"x">>},
     credential_id : {<<>>, <<"5">>},
     execution_environment_id : {<<>>, <<"4">>}]

\* files that may be in the playbook directory: name -> outcome of
\* open + yaml.safe_load
N_flash_all == <<"f", "l", "a", "s", "h", "_", "a", "l", "l", ".", "y", "a", "m", "l">>
N_b == <<"b", ".", "y", "a", "m", "l">>
N_c_target_device == <<"c", "_", "t", "a", "r", "g", "e", "t", "_", "d", "e", "v", "i", "c", "e", ".", "y", "a", "m", "l">>
N_empty == <<"e", ".", "y", "a", "m", "l">>
N_mapping == <<"m", ".", "y", "a", "m", "l">>
N_scalars == <<"s", ".", "y", "a", "m", "l">>
N_invalid == <<"y", ".", "y", "a", "m", "l">>
N_notes == <<"n", "o", "t", "e", "s", ".", "t", "x", "t">>

Doc_flash_all ==
    PyList(<< PyDict(<< <<K_name, PyStr(<<>>)>>,
                        <<K_vars, PyDict(<< <<K_esphome_timeout, PyInt(30)>>,
                                            <<<<"d", "e", "v", "i", "c", "e", "_", "p", "a", "t", "t", "e", "r", "n", "s">>,
                                              PyList(<<PyStr(<<"a">>), PyStr(<<"b">>)>>)>> >>)>> >>) >>)
Doc_b ==
    PyList(<< PyDict(<< <<K_name, PyStr(<<"B">>)>>,
                        <<K_hosts, PyStr(<<"h">>)>>,
                        <<K_vars, PyDict(<< <<<<"x", "_", "p", "a", "t", "t", "e", "r", "n", "s">>, PyList(<<PyStr(<<"p">>)>>)>>,
                                            <<K_k3s_context, PyStr(<<"c">>)>>,
                                            <<<<"K", "3", "S", "_", "C", "O", "N", "T", "E", "X", "T">>, PyStr(<<"n">>)>> >>)>> >>) >>)
\* two plays, the first without vars; same name as Doc_b
Doc_c ==
    PyList(<< PyDict(<< <<K_name, PyStr(<<"B">>)>> >>),
              PyDict(<< <<K_name, PyStr(<<"Z">>)>> >>) >>)

Fixtures ==
    (N_flash_all :> Doc_flash_all) @@ (N_b :> Doc_b) @@ (N_c_target_device :> Doc_c)
    @@ (N_empty :> PyNone) @@ (N_mapping :> PyDict(<< <<K_name, PyStr(<<"M">>)>> >>))
    @@ (N_scalars :> PyList(<<PyStr(<<"x">>)>>)) @@ (N_invalid :> Raise("YAMLError"))
    @@ (N_notes :> PyStr(<<"x">>))

\* job templates the service may already hold
OtherTemplate ==
    [data |-> [name |-> PyStr(<<"O">>), description |-> <<"o">>, job_type |-> "run",
               inventory |-> 1, project |-> 1, playbook |-> <<"o">>,
               ask_variables_on_launch |-> FALSE, extra_vars |-> yaml_dump(PyDict(<<>>))],
     credentials |-> {}]

OldTemplate ==
    [data |-> [name |-> PyStr(<<"B">>), description |-> <<"o", "l", "d">>, job_type |-> "run",
               inventory |-> 1, project |-> 1, playbook |-> <<"o", "l", "d", ".", "y", "a", "m", "l">>,
               ask_variables_on_launch |-> FALSE, extra_vars |-> yaml_dump(PyDict(<<>>)),
               execution_environment |-> 9],
     credentials |-> {1}]

(***************************************************************************)
(* State                                                                   *)
(***************************************************************************)
VARIABLES
    script,         \* the program that runs: "templates", "survey", "maintenance",
                    \* or "reconcile" (a direct caller of create_or_update_template)
    cfg,            \* CONFIG
    fs,             \* the local files the script reads
    pc,             \* position in the script
    exitCode,       \* process exit code, -1 while running
    httpIssued,     \* an HTTP request has been sent
    i,              \* main: loop variable of the sync poll
    syncOutcome,    \* main: how the project sync ended
    playbooks,      \* main: the scanned paths
    idx,            \* main: position in playbooks
    results,        \* main: results['created' / 'updated' / 'failed']
    desired,        \* the direct caller's template data
    calls,          \* the direct caller's number of calls
    template_data,  \* create_or_update_template: argument
    existing,       \* create_or_update_template: id found by name, 0 for None
    credentials,    \* create_or_update_template: popped credential ids
    template_id,    \* create_or_update_template: id the credentials go to
    result,         \* main: result.get('id'), 0 when the result has no id
    credIdx,        \* associate_credentials: position in credential_ids
    templates,      \* the service's job templates; the id is the index
    applications,   \* survey: the loaded k3s_applications
    surveyRemote,   \* the service's survey of the job template
    current_survey, \* survey: what get_survey returned
    surveyLog,      \* survey: the requests sent, in order: <<request, outcome>>
    maintenances,   \* the maintenance windows Uptime Kuma holds
    windows0,       \* the maintenance windows it held when the script started
    listed,         \* delete_maintenance: what get_maintenances returned
    mIdx,           \* delete_maintenance: position in the listed windows
    deleteCalls,    \* ids api.delete_maintenance was called with
    success,        \* maintenance main: the action returned True
    cur,            \* record of the requests of the current reconciliation
    history         \* records of the finished reconciliations, in order

ctlVars == <<script, cfg, fs>>
mainVars == <<i, syncOutcome, playbooks, idx, results>>
callerVars == <<desired, calls>>
reconcileVars == <<template_data, existing, credentials, template_id, credIdx, result>>
surveyVars == <<applications, surveyRemote, current_survey, surveyLog>>
maintVars == <<maintenances, windows0, listed, mIdx, deleteCalls, success>>

\* find: outcome of the lookup by name, foundId: the id it returned;
\* nCreate, nUpdate: POST and PATCH requests sent, updateId: the id PATCHed,
\* sent: their body; writeOk: the write succeeded, id: the template written;
\* nCreds: credential ids to link, nLink: link requests sent, nLinkFail:
\* those that failed, linkIds: the template ids they named; before, after:
\* number of templates of that name at the write request and after it;
\* resultId: the response to the write carried the template's id
NoRequests ==
    [find |-> "none", foundId |-> 0, nCreate |-> 0, nUpdate |-> 0, updateId |-> 0,
     sent |-> <<>>, writeOk |-> FALSE, id |-> 0, nCreds |-> 0, nLink |-> 0,
     nLinkFail |-> 0, linkIds |-> {}, before |-> 0, after |-> 0, resultId |-> FALSE]

\* ids of the templates with this name
Matching(tpls, name) == {id \in 1..Len(tpls) : tpls[id].data.name = name}

\* variant: the key stays in the dict
Without_Kept(d, key) == d

\* the dict without a key (dict.pop)
Without(d, key) == [k \in DOMAIN d \ {key} |-> d[k]]

(***************************************************************************)
(* create_awx_templates.py: AWXTemplateManager                              *)
(***************************************************************************)
\* what follows the return of create_or_update_template
Returned(rec) ==
    /\ pc' = IF script = "templates" THEN "classify" ELSE "returned"
    /\ cur' = rec
    /\ UNCHANGED <<exitCode, mainVars, callerVars, history>>

\* where the next playbook of main's loop starts, or the summary
AfterPlaybook(n) == IF n > Len(playbooks) THEN "summary" ELSE "process"

\* variant: the failure is not recorded
RecordFailure_Dropped(res, playbook_path) == res

\* results['failed'].append(playbook_path.name)
RecordFailure(res, playbook_path) ==
    [res EXCEPT !.failed = Append(@, PathName(playbook_path))]

\* an exception leaves create_or_update_template: main records the playbook
\* as failed and goes on
Raised(rec) ==
    /\ IF script = "templates"
       THEN /\ results' = RecordFailure(results, playbooks[idx])
            /\ idx' = idx + 1
            /\ pc' = AfterPlaybook(idx + 1)
            /\ history' = Append(history, rec @@ [file |-> playbooks[idx], outcome |-> "failed"])
            /\ cur' = NoRequests
       ELSE /\ pc' = "raised"
            /\ cur' = rec
            /\ UNCHANGED <<results, idx, history>>
    /\ UNCHANGED <<exitCode, i, syncOutcome, playbooks, callerVars>>

\* get_template: results[0] of the templates of that name (the order of the
\* results is the service's), None when there is none or the request failed
GetTemplate ==
    /\ pc = "find"
    /\ \/ \E id \in Matching(templates, template_data.name) :
            /\ existing' = id
            /\ cur' = [cur EXCEPT !.find = "found", !.foundId = id]
       \/ /\ Matching(templates, template_data.name) = {}
          /\ existing' = 0
          /\ cur' = [cur EXCEPT !.find = "missing"]
       \/ /\ existing' = 0
          /\ cur' = [cur EXCEPT !.find = "error"]
    /\ credentials' = IF "credentials" \in DOMAIN template_data
                      THEN template_data.credentials ELSE <<>>
    /\ template_data' = Without(template_data, "credentials")
    /\ httpIssued' = TRUE
    /\ pc' = "write"
    /\ UNCHANGED <<ctlVars, maintVars, exitCode, mainVars, callerVars, template_id, credIdx, result,
                   templates, history, surveyVars>>

\* variant: the update branch is missing, every call creates
WriteRequest_AlwaysPost(found) == [method |-> "POST", id |-> 0]

\* variant: the update goes to the first template, not to the one found
WriteRequest_FirstId(found) ==
    IF found # 0 THEN [method |-> "PATCH", id |-> 1] ELSE [method |-> "POST", id |-> 0]

\* the request create_or_update_template sends after the lookup
WriteRequest(found) ==
    IF found # 0 THEN [method |-> "PATCH", id |-> found] ELSE [method |-> "POST", id |-> 0]

\* the record of the request just sent
Sent(rec, req) ==
    [rec EXCEPT !.nCreate = @ + (IF req.method = "POST" THEN 1 ELSE 0),
                !.nUpdate = @ + (IF req.method = "PATCH" THEN 1 ELSE 0),
                !.updateId = req.id,
                !.sent = template_data,
                !.nCreds = Len(credentials),
                !.before = Cardinality(Matching(templates, template_data.name))]

\* result.get('id') of the response to the write request: None read as 0
ResultId(hasId, id) == IF hasId THEN id ELSE 0

\* update_template / create_template succeed, then the credentials branch.
\* The response is the service's JSON: with the template's id, or without
\* one, and then result['id'] of the create branch raises KeyError
WriteTemplate ==
    /\ pc = "write"
    /\ \E hasId \in BOOLEAN :
       LET req == WriteRequest(existing)
           id == IF req.method = "PATCH" THEN req.id ELSE Len(templates) + 1
           stored == IF req.method = "PATCH"
                     THEN [templates EXCEPT ![id].data = template_data @@ @]
                     ELSE Append(templates, [data |-> template_data, credentials |-> {}])
           rec == [Sent(cur, req) EXCEPT
                       !.writeOk = TRUE,
                       !.id = id,
                       !.after = Cardinality(Matching(stored, template_data.name)),
                       !.resultId = hasId]
       IN /\ templates' = stored
          /\ IF req.method = "POST" /\ ~hasId
             THEN /\ Raised(rec)
                  /\ UNCHANGED <<template_id, credIdx, result>>
             ELSE /\ template_id' = id
                  /\ result' = ResultId(hasId, id)
                  /\ IF credentials # <<>>
                     THEN /\ pc' = "link"
                          /\ credIdx' = 1
                          /\ cur' = rec
                          /\ UNCHANGED <<exitCode, mainVars, callerVars, history>>
                     ELSE /\ credIdx' = credIdx
                          /\ Returned(rec)
    /\ httpIssued' = TRUE
    /\ UNCHANGED <<ctlVars, maintVars, template_data, existing, credentials, surveyVars>>

\* update_template / create_template fail: _api_call raises
WriteTemplateFails ==
    /\ pc = "write"
    /\ Raised(Sent(cur, WriteRequest(existing)))
    /\ httpIssued' = TRUE
    /\ UNCHANGED <<ctlVars, maintVars, reconcileVars, templates, surveyVars>>

\* the service's templates after the link request for cred_id
Linked(tpls, id, cred_id, ok) ==
    IF ok THEN [tpls EXCEPT ![id].credentials = @ \cup {cred_id}] ELSE tpls

\* variant: the exception of a failed link request ends the loop
LinkLoopContinues_StopOnFailure(pos, credential_ids, ok) == ok /\ pos < Len(credential_ids)

\* the loop of associate_credentials goes on to the next id, whether the
\* request succeeded or raised (the exception is caught inside the loop)
LinkLoopContinues(pos, credential_ids, ok) == pos < Len(credential_ids)

\* one round of the loop of associate_credentials; a failure is a warning
AssociateCredential ==
    /\ pc = "link"
    /\ LET cred_id == credentials[credIdx] IN
       \E ok \in BOOLEAN :
          LET rec == [cur EXCEPT !.nLink = @ + 1,
                                 !.nLinkFail = @ + (IF ok THEN 0 ELSE 1),
                                 !.linkIds = @ \cup {template_id}]
          IN /\ templates' = Linked(templates, template_id, cred_id, ok)
             /\ IF LinkLoopContinues(credIdx, credentials, ok)
                THEN /\ credIdx' = credIdx + 1
                     /\ cur' = rec
                     /\ pc' = "link"
                     /\ UNCHANGED <<exitCode, mainVars, callerVars, history>>
                ELSE /\ credIdx' = credIdx
                     /\ Returned(rec)
    /\ httpIssued' = TRUE
    /\ UNCHANGED <<ctlVars, maintVars, template_data, existing, credentials, template_id, result,
                   surveyVars>>

(***************************************************************************)
(* create_awx_templates.py: main                                           *)
(***************************************************************************)
\* sys.exit(code), or the end of main (code 0)
Exit(code) ==
    /\ pc' = "exited"
    /\ exitCode' = code

\* the action main reports, from its second lookup by name (0 for None)
ReportedAction(lookup) == IF lookup # 0 THEN "updated" ELSE "created"

\* the result's id is set
HasId(id) == id # 0

\* main up to the project sync request
ValidateConfig ==
    /\ script = "templates"
    /\ pc = "validate"
    /\ IF validate_config(cfg)
       THEN pc' = "sync" /\ exitCode' = exitCode
       ELSE Exit(1)
    /\ UNCHANGED <<ctlVars, maintVars, httpIssued, mainVars, callerVars, reconcileVars, templates,
                   cur, history, surveyVars>>

\* variant: a project sync that did not succeed ends the run at the summary
AfterSync_FatalProblem(outcome) == IF outcome = "successful" THEN "scan" ELSE "summary"

\* where main goes on after the project sync, however it ended: the break,
\* the else branch of the loop and the except clause all lead to the scan
AfterSync(outcome) == "scan"

\* variant: the status is not tested, the loop runs all its rounds
PollLoopEnds_StatusIgnored(status, checks) == checks >= PollAttempts

\* the poll loop ends after a status check: at the break on 'successful', or
\* when the check was the last of range(10)
PollLoopEnds(status, checks) == status = "successful" \/ checks >= PollAttempts

\* POST /projects/<id>/update/; an exception ends the sync with a warning
SyncProject ==
    /\ pc = "sync"
    /\ \E ok \in BOOLEAN :
          IF ok THEN pc' = "poll" /\ i' = 0 /\ syncOutcome' = syncOutcome
          ELSE pc' = AfterSync("error") /\ i' = i /\ syncOutcome' = "error"
    /\ httpIssued' = TRUE
    /\ UNCHANGED <<ctlVars, maintVars, exitCode, playbooks, idx, results, callerVars, reconcileVars,
                   templates, cur, history, surveyVars>>

\* one round of the poll loop: GET /projects/<id>/ and the status test; i is
\* the number of status checks made before this one
PollStatus ==
    /\ pc = "poll"
    /\ i < PollAttempts
    /\ \E answer \in {"successful", "other", "exception"} :
          IF answer = "exception"
          THEN pc' = AfterSync("error") /\ syncOutcome' = "error" /\ i' = i + 1
          ELSE /\ i' = i + 1
               /\ syncOutcome' = IF answer = "successful" THEN "successful"
                                 ELSE IF i + 1 >= PollAttempts THEN "timeout"
                                 ELSE syncOutcome
               /\ pc' = IF PollLoopEnds(answer, i + 1)
                        THEN AfterSync(IF answer = "successful" THEN "successful" ELSE "timeout")
                        ELSE "poll"
    /\ httpIssued' = TRUE
    /\ UNCHANGED <<ctlVars, maintVars, exitCode, playbooks, idx, results, callerVars, reconcileVars,
                   templates, cur, history, surveyVars>>

\* scan_playbooks and the start of the loop
ScanPlaybooks ==
    /\ pc = "scan"
    /\ IF ~fs.exists
       THEN Exit(1) /\ UNCHANGED <<playbooks, idx>>
       ELSE /\ playbooks' = scan_playbooks(DOMAIN fs.files)
            /\ idx' = 1
            /\ pc' = IF scan_playbooks(DOMAIN fs.files) = <<>> THEN "summary" ELSE "process"
            /\ exitCode' = exitCode
    /\ i' = 0    \* not read after the loop
    /\ UNCHANGED <<ctlVars, maintVars, httpIssued, syncOutcome, results, callerVars, reconcileVars,
                   templates, cur, history, surveyVars>>

\* the loop body up to the call of create_or_update_template: parse, the
\* name test, build_template_data; an exception records the file as failed
ProcessPlaybook ==
    /\ script = "templates"
    /\ pc = "process"
    /\ LET playbook_path == playbooks[idx]
           playbook_meta == parse_playbook(playbook_path, fs.files[PathName(playbook_path)])
           built == build_template_data(playbook_meta, cfg)
           outcome ==
               IF IsRaise(playbook_meta) THEN "failed"
               ELSE IF ~Truthy(DictGet(playbook_meta, K_name, PyNone)) THEN "skipped"
               ELSE IF IsRaise(built) THEN "failed"
               ELSE "built"
       IN IF outcome = "built"
          THEN /\ template_data' = built
               /\ pc' = "find"
               /\ UNCHANGED <<results, idx, history>>
          ELSE /\ results' = IF outcome = "failed"
                             THEN RecordFailure(results, playbook_path)
                             ELSE results
               /\ idx' = idx + 1
               /\ pc' = AfterPlaybook(idx + 1)
               /\ history' = Append(history,
                                 cur @@ [file |-> playbook_path, outcome |-> outcome])
               /\ UNCHANGED template_data
    /\ UNCHANGED <<ctlVars, maintVars, exitCode, httpIssued, i, syncOutcome, playbooks, callerVars,
                   existing, credentials, template_id, credIdx, result, templates, cur,
                   surveyVars>>

\* after create_or_update_template returned: the id test, the second lookup
\* by name (None when the request fails) and the entry in results
ClassifyResult ==
    /\ pc = "classify"
    /\ IF HasId(result)
       THEN /\ \E lookup \in Matching(templates, template_data.name) \cup {0} :
                 LET action == ReportedAction(lookup) IN
                 /\ results' = [results EXCEPT ![action] = Append(@, template_data.name)]
                 /\ history' = Append(history,
                                   cur @@ [file |-> playbooks[idx], outcome |-> action])
            /\ httpIssued' = TRUE
       ELSE /\ history' = Append(history,
                              cur @@ [file |-> playbooks[idx], outcome |-> "uncounted"])
            /\ UNCHANGED <<results, httpIssued>>
    /\ cur' = NoRequests
    /\ idx' = idx + 1
    /\ pc' = AfterPlaybook(idx + 1)
    /\ UNCHANGED <<ctlVars, maintVars, exitCode, i, syncOutcome, playbooks, callerVars, reconcileVars,
                   templates, surveyVars>>

\* variant: main ends without sys.exit(1)
SummaryExitCode_AlwaysZero(res) == 0

\* sys.exit(1) when results['failed'] is not empty, else the end of main
SummaryExitCode(res) == IF res.failed # <<>> THEN 1 ELSE 0

\* the summary and the exit code
Summary ==
    /\ pc = "summary"
    /\ Exit(SummaryExitCode(results))
    /\ UNCHANGED <<ctlVars, maintVars, httpIssued, mainVars, callerVars, reconcileVars, templates,
                   cur, history, surveyVars>>

(***************************************************************************)
(* update_awx_k3s_app_survey.py                                            *)
(***************************************************************************)
SurveyConfigs ==
    [awx_url : {<<>>, <<"u">>},
     awx_token : {<<>>, <<"t">>},
     template_id : {<<>>, <<"3", "2">>, <<"x">>}]

\* most applications in a generated k3s_applications mapping
MaxApps == 2

\* application names, and the mappings of at most MaxApps of them in every
\* order of the file
AppNames ==
    { <<"a", "l">>, <<"a", "l", "p", "h", "a">>, <<"B", "e", "t", "a">>, <<"z", "e", "t", "a">> }

\* outcomes of yaml.safe_load of the applications file
AppEntry(method) == PyDict(<< <<S_deployment_method, PyStr(method)>> >>)

ApplicationMappings ==
    LET orders == UNION {[1..n -> AppNames] : n \in 0..MaxApps}
        keys == {q \in orders : \A a, b \in DOMAIN q : q[a] = q[b] => a = b}
    IN {PyDict([k \in DOMAIN q |-> <<q[k], AppEntry(<<"h", "e", "l", "m">>)>>]) : q \in keys}

ApplicationDocs ==
    {PyDict(<< <<S_k3s_applications, m>> >>) : m \in ApplicationMappings} \cup
    { PyNone,
      PyDict(<< <<<<"o", "t", "h", "e", "r">>, PyInt(1)>> >>),
      PyDict(<< <<S_k3s_applications, PyDict(<<>>)>> >>),
      PyDict(<< <<S_k3s_applications,
                  PyDict(<< <<<<"z", "e", "t", "a">>, AppEntry(<<"h", "e", "l", "m">>)>>, <<<<"a", "l", "p", "h", "a">>, PyDict(<<>>)>> >>)>> >>),
      PyDict(<< <<S_k3s_applications,
                  PyDict(<< <<<<"a", "l", "p", "h", "a">>, PyDict(<<>>)>>, <<<<"B", "e", "t", "a">>, AppEntry(<<"h", "e", "l", "m">>)>>,
                            <<<<"z", "e", "t", "a">>, AppEntry(<<"h", "e", "l", "m">>)>> >>)>> >>),
      PyDict(<< <<S_k3s_applications, PyDict(<< <<<<"a", "l", "p", "h", "a">>, PyStr(<<"h", "e", "l", "m">>)>> >>)>> >>) }

\* surveys the service may hold before the run: none, or some questions
OldSurveys ==
    { PyNone,
      [t |-> "survey", v |-> [name |-> <<"o", "l", "d">>, spec |-> << [variable |-> <<"v">>, choices |-> <<<<"z", "e", "t", "a">>>>] >>]],
      [t |-> "survey", v |-> [name |-> <<"o", "l", "d">>,
                              spec |-> << [variable |-> <<"a", "p", "p", "_", "n", "a", "m", "e">>, choices |-> <<<<"o", "l", "d">>>>],
                                          [variable |-> <<"w">>, choices |-> <<>>] >>]] }

\* validate_config of update_awx_k3s_app_survey.py
survey_validate_config(config) ==
    /\ config.awx_url # <<>>
    /\ config.awx_token # <<>>
    /\ config.template_id # <<>>

\* load_k3s_applications, given the parsed document
load_k3s_applications(doc) ==
    IF doc.t # "dict" THEN Raise("AttributeError")
    ELSE DictGet(doc, S_k3s_applications, PyDict(<<>>))

\* variant: the choices are the keys in the order of the file
build_survey_spec_FileOrder(apps) ==
    [t |-> "survey",
     v |-> [spec |-> << [required |-> TRUE,
                         type |-> "multiplechoice",
                         variable |-> <<"a", "p", "p", "_", "n", "a", "m", "e">>,
                         choices |-> [k \in DOMAIN apps.v |-> apps.v[k][1]]] >>]]

\* build_survey_spec
build_survey_spec(apps) ==
    LET app_names == SortedStrs({apps.v[k][1] : k \in 1..Len(apps.v)})
    IN [t |-> "survey",
        v |-> [name |-> <<"K", "3", "s", " ", "A", "p", "p", "l", "i", "c", "a", "t", "i", "o", "n", " ", "U", "p", "d", "a", "t", "e", " ", "S", "u", "r", "v", "e", "y">>,
               description |-> <<"S", "e", "l", "e", "c", "t", " ", "w", "h", "i", "c", "h", " ", "K", "3", "s", " ", "a", "p", "p", "l", "i", "c", "a", "t", "i", "o", "n", " ", "t", "o", " ", "u", "p", "d", "a", "t", "e">>,
               spec |-> << [question_name |-> <<"A", "p", "p", "l", "i", "c", "a", "t", "i", "o", "n", " ", "N", "a", "m", "e">>,
                            question_description |-> <<"W", "h", "i", "c", "h", " ", "a", "p", "p", "l", "i", "c", "a", "t", "i", "o", "n", " ", "d", "o", " ", "y", "o", "u", " ", "w", "a", "n", "t", " ", "t", "o", " ", "u", "p", "d", "a", "t", "e", "?">>,
                            required |-> TRUE,
                            type |-> "multiplechoice",
                            variable |-> <<"a", "p", "p", "_", "n", "a", "m", "e">>,
                            min |-> PyNone,
                            max |-> PyNone,
                            default |-> <<>>,
                            choices |-> app_names,
                            new_question |-> TRUE] >>]]

\* main's loop over the applications prints each deployment method
Printable(apps) ==
    /\ apps.t = "dict"
    /\ \A k \in 1..Len(apps.v) : apps.v[k][2].t = "dict"

SurveyValidateConfig ==
    /\ script = "survey"
    /\ pc = "validate"
    /\ IF survey_validate_config(cfg)
       THEN pc' = "load" /\ exitCode' = exitCode
       ELSE Exit(1)
    /\ UNCHANGED <<ctlVars, maintVars, httpIssued, mainVars, callerVars, reconcileVars, templates,
                   cur, history, surveyVars>>

\* main from load_k3s_applications to int(CONFIG['template_id']); an exception
\* that nothing catches ends the process with code 1
LoadApplications ==
    /\ pc = "load"
    /\ LET loaded == IF fs.exists THEN load_k3s_applications(fs.doc) ELSE Raise("exit")
       IN IF IsRaise(loaded) \/ ~Printable(loaded) \/ IsRaise(ParseInt(cfg.template_id))
          THEN Exit(1) /\ UNCHANGED applications
          ELSE pc' = "get_template" /\ exitCode' = exitCode /\ applications' = loaded
    /\ UNCHANGED <<ctlVars, maintVars, httpIssued, mainVars, callerVars, reconcileVars, templates,
                   cur, history, surveyRemote, current_survey, surveyLog>>

\* get_template of the survey manager: None (exit 1) when the request fails
SurveyGetTemplate ==
    /\ pc = "get_template"
    /\ \E ok \in BOOLEAN :
          /\ IF ok THEN pc' = "get_survey" /\ exitCode' = exitCode ELSE Exit(1)
          /\ surveyLog' = Append(surveyLog, <<"get_template", IF ok THEN "ok" ELSE "error">>)
    /\ httpIssued' = TRUE
    /\ UNCHANGED <<ctlVars, maintVars, mainVars, callerVars, reconcileVars, templates, cur, history,
                   applications, surveyRemote, current_survey>>

\* get_survey: the survey of the template, None when the request fails; main
\* only prints the number of its questions
GetSurvey ==
    /\ pc = "get_survey"
    /\ \E ok \in BOOLEAN :
          /\ current_survey' = IF ok THEN surveyRemote.spec ELSE PyNone
          /\ surveyLog' = Append(surveyLog, <<"get_survey", IF ok THEN "ok" ELSE "error">>)
    /\ pc' = "push"
    /\ httpIssued' = TRUE
    /\ UNCHANGED <<ctlVars, maintVars, exitCode, mainVars, callerVars, reconcileVars, templates, cur,
                   history, applications, surveyRemote>>

\* variant: the new question is added to the questions of the current survey
PushedSpec_Merged(current, apps) ==
    IF current.t = "survey"
    THEN [build_survey_spec(apps) EXCEPT !.v.spec = current.v.spec \o @]
    ELSE build_survey_spec(apps)

\* the survey_spec main passes to update_survey: built from the applications,
\* the current survey is not read
PushedSpec(current, apps) == build_survey_spec(apps)

\* variant: the outcome of the POST is not looked at
PushSucceeded_Always(status) == TRUE

\* update_survey returned True: the POST did not raise and its status is 200
PushSucceeded(status) == status = "200"

\* update_survey: POST of the built spec, which the service stores in place of
\* the survey it held; status 200 is success, another 2xx status and an HTTP
\* error end the run with code 1
UpdateSurvey ==
    /\ pc = "push"
    /\ \E status \in {"200", "2xx", "error"} :
          /\ surveyRemote' = IF status = "error" THEN surveyRemote
                             ELSE [surveyRemote EXCEPT
                                       !.spec = PushedSpec(current_survey, applications)]
          /\ surveyLog' = Append(surveyLog, <<"push", status>>)
          /\ IF PushSucceeded(status) THEN pc' = "enable" /\ exitCode' = exitCode ELSE Exit(1)
    /\ httpIssued' = TRUE
    /\ UNCHANGED <<ctlVars, maintVars, mainVars, callerVars, reconcileVars, templates, cur, history,
                   applications, current_survey>>

\* enable_survey: PATCH survey_enabled, then the end of main
EnableSurvey ==
    /\ pc = "enable"
    /\ \E ok \in BOOLEAN :
          /\ surveyRemote' = IF ok THEN [surveyRemote EXCEPT !.enabled = TRUE] ELSE surveyRemote
          /\ surveyLog' = Append(surveyLog, <<"enable", IF ok THEN "ok" ELSE "error">>)
          /\ Exit(IF ok THEN 0 ELSE 1)
    /\ httpIssued' = TRUE
    /\ UNCHANGED <<ctlVars, maintVars, mainVars, callerVars, reconcileVars, templates, cur, history,
                   applications, current_survey>>

(***************************************************************************)
(* uptime_kuma_maintenance.py                                              *)
(***************************************************************************)
\* most maintenance windows Uptime Kuma holds at the start
MaxWindows == 3

\* --action
MaintenanceArgs == [action : {"disable", "enable"}]

\* titles of the windows: the script's, two that differ from it in case and
\* in length, and a window without a title
WindowTitles ==
    { PyStr(S_maintenance_title),
      PyStr([j \in DOMAIN S_maintenance_title |-> ToLower(S_maintenance_title[j])]),
      PyStr(S_maintenance_title \o <<" ", "2">>),
      PyNone }

\* the windows the service may hold: ids 1..n, each with one of the titles
InitialWindows ==
    UNION {{ {[id |-> k, title |-> titles[k]] : k \in 1..n} : titles \in [1..n -> WindowTitles] }
           : n \in 0..MaxWindows}

\* the windows in the order get_maintenances returns them, by id
RECURSIVE ById(_)
ById(ws) ==
    IF ws = {} THEN <<>>
    ELSE LET first == CHOOSE w \in ws : \A v \in ws : w.id <= v.id
         IN <<first>> \o ById(ws \ {first})

\* variant: the title is compared without regard to case
IsAnsibleWindow_AnyCase(maintenance) ==
    /\ maintenance.title.t = "str"
    /\ [j \in DOMAIN maintenance.title.v |-> ToLower(maintenance.title.v[j])]
          = [j \in DOMAIN S_maintenance_title |-> ToLower(S_maintenance_title[j])]

\* maintenance.get("title") == "Ansible Maintenance Window"
IsAnsibleWindow(maintenance) == maintenance.title = PyStr(S_maintenance_title)

\* where the loop of delete_maintenance goes on, or its return
AfterWindow(n) == IF n > Len(listed) THEN "disconnect" ELSE "delete"

\* main: UptimeKumaApi(url) and api.login; an exception ends with code 1
Login ==
    /\ script = "maintenance"
    /\ pc = "login"
    /\ \E ok \in BOOLEAN :
          IF ok
          THEN /\ pc' = IF cfg.action = "disable" THEN "create" ELSE "list"
               /\ exitCode' = exitCode
          ELSE Exit(1)
    /\ UNCHANGED <<ctlVars, maintVars, httpIssued, mainVars, callerVars, reconcileVars,
                   templates, cur, history, surveyVars>>

\* create_maintenance: nothing to do without monitor groups; else
\* add_maintenance and the association of monitors and status pages. A result
\* without maintenanceID returns False; an exception reaches main, whether
\* the window was added before it or not
CreateMaintenance ==
    /\ pc = "create"
    /\ \E groups \in BOOLEAN, outcome \in {"ok", "no_id", "error"}, added \in BOOLEAN :
          LET id == Cardinality(windows0) + 1
              window == [id |-> id, title |-> PyStr(S_maintenance_title)]
          IN IF ~groups
             THEN /\ outcome = "ok" /\ ~added
                  /\ success' = TRUE
                  /\ pc' = "disconnect"
                  /\ UNCHANGED <<maintenances, exitCode>>
             ELSE CASE outcome = "ok" ->
                          /\ added
                          /\ maintenances' = maintenances \cup {window}
                          /\ success' = TRUE
                          /\ pc' = "disconnect"
                          /\ exitCode' = exitCode
                    [] outcome = "no_id" ->
                          /\ ~added
                          /\ success' = FALSE
                          /\ pc' = "disconnect"
                          /\ UNCHANGED <<maintenances, exitCode>>
                    [] OTHER ->
                          /\ maintenances' = IF added THEN maintenances \cup {window}
                                             ELSE maintenances
                          /\ success' = success
                          /\ Exit(1)
    /\ UNCHANGED <<ctlVars, windows0, listed, mIdx, deleteCalls, httpIssued, mainVars,
                   callerVars, reconcileVars, templates, cur, history, surveyVars>>

\* delete_maintenance: api.get_maintenances(); an exception reaches main
GetMaintenances ==
    /\ pc = "list"
    /\ \E ok \in BOOLEAN :
          IF ok
          THEN /\ listed' = ById(maintenances)
               /\ mIdx' = 1
               /\ success' = (maintenances = {})
               /\ pc' = IF maintenances = {} THEN "disconnect" ELSE "delete"
               /\ exitCode' = exitCode
          ELSE /\ Exit(1)
               /\ UNCHANGED <<listed, mIdx, success>>
    /\ UNCHANGED <<ctlVars, maintenances, windows0, deleteCalls, httpIssued, mainVars,
                   callerVars, reconcileVars, templates, cur, history, surveyVars>>

\* one round of the loop of delete_maintenance: the title test and
\* api.delete_maintenance(maintenance["id"]); an exception reaches main. After
\* the last round the function returns True
DeleteWindow ==
    /\ pc = "delete"
    /\ LET maintenance == listed[mIdx] IN
       IF IsAnsibleWindow(maintenance)
       THEN \E ok \in BOOLEAN :
               /\ deleteCalls' = deleteCalls \cup {maintenance.id}
               /\ IF ok
                  THEN /\ maintenances' = {w \in maintenances : w.id # maintenance.id}
                       /\ mIdx' = mIdx + 1
                       /\ pc' = AfterWindow(mIdx + 1)
                       /\ success' = (AfterWindow(mIdx + 1) = "disconnect")
                       /\ exitCode' = exitCode
                  ELSE /\ Exit(1)
                       /\ UNCHANGED <<maintenances, mIdx, success>>
       ELSE /\ mIdx' = mIdx + 1
            /\ pc' = AfterWindow(mIdx + 1)
            /\ success' = (AfterWindow(mIdx + 1) = "disconnect")
            /\ UNCHANGED <<maintenances, deleteCalls, exitCode>>
    /\ UNCHANGED <<ctlVars, windows0, listed, httpIssued, mainVars, callerVars,
                   reconcileVars, templates, cur, history, surveyVars>>

\* main: api.disconnect() and sys.exit(0 if success else 1); an exception
\* ends with code 1
Disconnect ==
    /\ pc = "disconnect"
    /\ \E ok \in BOOLEAN : Exit(IF ok /\ success THEN 0 ELSE 1)
    /\ UNCHANGED <<ctlVars, maintVars, httpIssued, mainVars, callerVars, reconcileVars,
                   templates, cur, history, surveyVars>>

(***************************************************************************)
(* A direct caller of create_or_update_template                            *)
(***************************************************************************)
\* most credential ids in the caller's template data
MaxCreds == 2

CredentialIds == <<5, 6, 7, 8>>

CallerConfig ==
    [awx_url |-> <<"u">>, awx_token |-> <<"t">>, project_id |-> <<"7">>,
     inventory_id |-> <<"2">>, credential_id |-> <<>>, execution_environment_id |-> <<>>]

\* template data the caller passes: built from a playbook, with 0..MaxCreds
\* credential ids
DesiredResources ==
    LET path == S_playbook_dir \o <<"/">> \o N_b
        built == build_template_data(parse_playbook(path, Doc_b), CallerConfig)
    IN {built} \cup
       {built @@ [credentials |-> SubSeq(CredentialIds, 1, n)] : n \in 1..MaxCreds}

\* the caller calls again, with the same template data
CallAgain ==
    /\ script = "reconcile"
    /\ pc \in {"returned", "raised"}
    /\ calls < MaxCalls
    /\ calls' = calls + 1
    /\ history' = Append(history, cur @@ [file |-> <<>>, outcome |-> pc])
    /\ cur' = NoRequests
    /\ template_data' = desired
    /\ pc' = "find"
    /\ UNCHANGED <<ctlVars, maintVars, exitCode, httpIssued, mainVars, desired, existing, credentials,
                   template_id, credIdx, result, templates, surveyVars>>

(***************************************************************************)
(* Specification                                                           *)
(***************************************************************************)
vars ==
    <<script, cfg, fs, pc, exitCode, httpIssued, i, syncOutcome, playbooks, idx, results,
      desired, calls, template_data, existing, credentials, template_id, credIdx, result,
      templates, applications, surveyRemote, current_survey, surveyLog, maintenances,
      windows0, listed, mIdx, deleteCalls, success, cur, history>>

\* the playbook directory: missing, or at most MaxFiles of the files
Directories ==
    {[exists |-> FALSE, files |-> <<>>]} \cup
    {[exists |-> TRUE, files |-> [n \in S |-> Fixtures[n]]] :
        S \in {X \in SUBSET DOMAIN Fixtures : Cardinality(X) <= MaxFiles}}

ApplicationFiles ==
    {[exists |-> FALSE, doc |-> PyNone]} \cup {[exists |-> TRUE, doc |-> d] : d \in ApplicationDocs}

InitialTemplates == {<<>>, <<OldTemplate>>, <<OtherTemplate, OldTemplate>>}

Init ==
    /\ script \in {"templates", "survey", "maintenance", "reconcile"}
    /\ cfg \in CASE script = "templates" -> TemplateConfigs
                 [] script = "survey" -> SurveyConfigs
                 [] script = "maintenance" -> MaintenanceArgs
                 [] OTHER -> {CallerConfig}
    /\ fs \in CASE script = "templates" -> Directories
                [] script = "survey" -> ApplicationFiles
                [] OTHER -> {[exists |-> FALSE]}
    /\ pc = CASE script = "reconcile" -> "find"
              [] script = "maintenance" -> "login"
              [] OTHER -> "validate"
    /\ exitCode = -1
    /\ httpIssued = FALSE
    /\ i = 0
    /\ syncOutcome = "none"
    /\ playbooks = <<>>
    /\ idx = 0
    /\ results = [created |-> <<>>, updated |-> <<>>, failed |-> <<>>]
    /\ desired \in IF script = "reconcile" THEN DesiredResources ELSE {<<>>}
    /\ calls = IF script = "reconcile" THEN 1 ELSE 0
    /\ template_data = desired
    /\ existing = 0
    /\ credentials = <<>>
    /\ template_id = 0
    /\ result = 0
    /\ credIdx = 0
    /\ templates \in IF script \in {"survey", "maintenance"} THEN {<<>>} ELSE InitialTemplates
    /\ applications = PyNone
    /\ surveyRemote \in IF script = "survey"
                        THEN [spec : OldSurveys, enabled : BOOLEAN]
                        ELSE {[spec |-> PyNone, enabled |-> FALSE]}
    /\ current_survey = PyNone
    /\ surveyLog = <<>>
    /\ maintenances \in IF script = "maintenance" THEN InitialWindows ELSE {{}}
    /\ windows0 = maintenances
    /\ listed = <<>>
    /\ mIdx = 0
    /\ deleteCalls = {}
    /\ success = FALSE
    /\ cur = NoRequests
    /\ history = <<>>

Next ==
    \/ ValidateConfig
    \/ SyncProject
    \/ PollStatus
    \/ ScanPlaybooks
    \/ ProcessPlaybook
    \/ GetTemplate
    \/ WriteTemplate
    \/ WriteTemplateFails
    \/ AssociateCredential
    \/ ClassifyResult
    \/ Summary
    \/ SurveyValidateConfig
    \/ LoadApplications
    \/ SurveyGetTemplate
    \/ GetSurvey
    \/ UpdateSurvey
    \/ EnableSurvey
    \/ Login
    \/ CreateMaintenance
    \/ GetMaintenances
    \/ DeleteWindow
    \/ Disconnect
    \/ CallAgain

Spec == Init /\ [][Next]_vars

(***************************************************************************)
(* Properties                                                              *)
(***************************************************************************)
\* a create or update request was sent
WriteSent(rec) == rec.nCreate + rec.nUpdate > 0
\* it was sent and failed
WriteFailed(rec) == WriteSent(rec) /\ ~rec.writeOk
\* number of times x is in seq
Count(seq, x) == Cardinality({j \in 1..Len(seq) : seq[j] = x})
\* main counted the reconciliation as created or updated
Counted(rec) == rec.outcome \in {"created", "updated"}

WriteFollowsLookup(rec) ==
    /\ rec.find = "found" =>
          rec.nUpdate = 1 /\ rec.nCreate = 0 /\ rec.updateId = rec.foundId
    /\ rec.find \in {"missing", "error"} =>
          rec.nCreate = 1 /\ rec.nUpdate = 0 /\ rec.updateId = 0

\* C2: every reconciliation sends exactly one write request: a PATCH to the
\* id found and no POST when the lookup by name returned a template, a POST
\* and no PATCH when it returned None; never both and never neither.
C2_CreateXorUpdate ==
    /\ \A k \in 1..Len(history) :
          /\ history[k].nCreate + history[k].nUpdate <= 1
          /\ history[k].find # "none" => WriteFollowsLookup(history[k])
    /\ cur.nCreate + cur.nUpdate <= 1
    /\ pc \in {"link", "classify", "returned", "raised"} => WriteFollowsLookup(cur)

C2_Witness ==
    /\ script = "templates"
    /\ Len(history) = 2
    /\ history[1].find = "missing" /\ history[1].nCreate = 1 /\ history[1].writeOk
    /\ history[2].find = "found" /\ history[2].nUpdate = 1 /\ history[2].writeOk
    /\ history[2].updateId = history[1].id

\* C3 (as claimed): the run summary counts a template that was not found and
\* was created under 'created', and one that was found and updated under
\* 'updated'.
C3_ReportedActionMatchesRequest ==
    script = "templates" =>
        \A k \in 1..Len(history) :
            /\ (history[k].find = "missing" /\ history[k].nCreate = 1 /\ Counted(history[k]))
                  => history[k].outcome = "created"
            /\ (history[k].find = "found" /\ history[k].nUpdate = 1 /\ Counted(history[k]))
                  => history[k].outcome = "updated"

\* the template a finished reconciliation wrote is still held, under its name
InPlace(rec) ==
    /\ rec.id \in 1..Len(templates)
    /\ templates[rec.id].data.name = rec.sent.name

\* the script took the write as returned: the PATCH answered, or the POST
\* answered with the id of the template
WriteReturned(rec) == rec.writeOk /\ (rec.resultId \/ rec.nUpdate = 1)

C5_FindFailureRecorded ==
    script = "templates" =>
        \A k \in 1..Len(history) :
            history[k].find = "error" =>
                /\ history[k].outcome = "failed"
                /\ Count(results.failed, PathName(history[k].file)) = 1

\* C6: fail-soft without retry: a playbook whose create or update request
\* failed is in results['failed'] exactly once, no playbook is sent more than
\* one create or update request in a run, and at the summary every scanned
\* playbook has been processed, in order.
C6_FailSoftNoRetry ==
    script = "templates" =>
        /\ \A k \in 1..Len(history) :
              /\ history[k].file = playbooks[k]
              /\ history[k].nCreate + history[k].nUpdate <= 1
              /\ WriteFailed(history[k]) =>
                    /\ history[k].outcome = "failed"
                    /\ Count(results.failed, PathName(history[k].file)) = 1
        /\ cur.nCreate + cur.nUpdate <= 1
        /\ pc \in {"summary", "exited"} => Len(history) = Len(playbooks)

C6_Witness ==
    /\ script = "templates"
    /\ pc = "exited"
    /\ Len(history) = 2
    /\ WriteFailed(history[1])
    /\ history[2].writeOk /\ Counted(history[2])

\* a required setting of create_awx_templates.py is empty
TemplateSettingMissing ==
    \/ cfg.awx_url = <<>>
    \/ cfg.awx_token = <<>>
    \/ cfg.project_id = <<>>
    \/ cfg.inventory_id = <<>>

\* a required setting of update_awx_k3s_app_survey.py is empty
SurveySettingMissing ==
    \/ cfg.awx_url = <<>>
    \/ cfg.awx_token = <<>>
    \/ cfg.template_id = <<>>

\* C7: a run of create_awx_templates.py with its required settings and its
\* playbook directory exits with a code other than 0 exactly when
\* results['failed'] is not empty.
C7_ExitCodeIffFailed ==
    (script = "templates" /\ pc = "exited" /\ ~TemplateSettingMissing /\ fs.exists)
        => /\ exitCode \in {0, 1}
           /\ exitCode # 0 <=> results.failed # <<>>

C7_Witness ==
    /\ script = "templates"
    /\ pc = "exited"
    /\ ~TemplateSettingMissing /\ fs.exists
    /\ results.failed # <<>> /\ results.updated # <<>>
    /\ exitCode = 1

\* C8: an empty required setting is fatal before any request: the script
\* never sends an HTTP request and, once it has exited, the exit code is 1.
C8_MissingConfigBeforeAnyRequest ==
    ((script = "templates" /\ TemplateSettingMissing)
        \/ (script = "survey" /\ SurveySettingMissing))
        => /\ ~httpIssued
           /\ pc \in {"validate", "exited"}
           /\ pc = "exited" => exitCode = 1
           /\ templates \in InitialTemplates \cup {<<>>}
           /\ surveyRemote.spec \in OldSurveys

C8_Witness ==
    /\ script = "templates"
    /\ cfg.inventory_id = <<>>
    /\ cfg.awx_url # <<>> /\ cfg.awx_token # <<>> /\ cfg.project_id # <<>>
    /\ pc = "exited"
    /\ exitCode = 1
    /\ ~httpIssued

\* the file is empty or does not parse as a sequence of mappings
Malformed(doc) ==
    \/ IsRaise(doc)
    \/ ~Truthy(doc)
    \/ doc.t # "list"
    \/ doc.v[1].t # "dict"

\* C9 (as claimed): a malformed descriptor is skipped: it is not recorded as
\* created, updated or failed and no request is sent for it.
C9_MalformedSkipped ==
    script = "templates" =>
        \A k \in 1..Len(history) :
            Malformed(fs.files[PathName(history[k].file)]) =>
                /\ history[k].outcome = "skipped"
                /\ history[k].find = "none"
                /\ Count(results.failed, PathName(history[k].file)) = 0

S_FlashAll == <<"F", "l", "a", "s", "h", " ", "A", "l", "l">>
S_FlashAllDescription == <<"F", "l", "a", "s", "h", " ", "A", "l", "l", " ", "|", " ", "P", "a", "t", "t", "e", "r", "n", "s", ":", " ", "a", ",", " ", "b">>
P_flash_all == S_playbook_dir \o <<"/">> \o N_flash_all

\* C10 (as claimed): the playbook flash_all.yaml with an empty name is
\* reconciled under the name "Flash All" with the description
\* "Flash All | Patterns: a, b", the extra vars {esphome_timeout: 30} and
\* ask_limit_on_launch false.
C10_DerivedNameScenario ==
    (script = "templates" /\ IsIntStr(cfg.inventory_id))
        => \A k \in 1..Len(history) :
              history[k].file = P_flash_all =>
                  /\ WriteSent(history[k])
                  /\ history[k].sent.name = PyStr(S_FlashAll)
                  /\ history[k].sent.description = S_FlashAllDescription
                  /\ history[k].sent.extra_vars
                        = yaml_dump(PyDict(<< <<K_esphome_timeout, PyInt(30)>> >>))
                  /\ history[k].sent.ask_limit_on_launch = FALSE

S_app_name == <<"a", "p", "p", "_", "n", "a", "m", "e">>
S_alpha == <<"a", "l", "p", "h", "a">>
S_zeta == <<"z", "e", "t", "a">>

\* the keys of a mapping
Keys(d) == {d.v[k][1] : k \in DOMAIN d.v}

\* the survey has one question, app_name, required, multiplechoice, whose
\* choices are the keys of the applications, each once, in ascending order
OneSortedQuestion(survey, apps) ==
    /\ survey.t = "survey"
    /\ Len(survey.v.spec) = 1
    /\ LET question == survey.v.spec[1] IN
          /\ question.variable = S_app_name
          /\ question.required = TRUE
          /\ question.type = "multiplechoice"
          /\ {question.choices[j] : j \in DOMAIN question.choices} = Keys(apps)
          /\ Len(question.choices) = Cardinality(Keys(apps))
          /\ \A a, b \in DOMAIN question.choices :
                a < b => StrLess(question.choices[a], question.choices[b])

\* C11: for every applications mapping the script loads, build_survey_spec
\* gives exactly one question (variable app_name, required, multiplechoice)
\* whose choices are the mapping's keys, each once, in ascending order whatever
\* the order of the file; an empty mapping gives an empty choice list.
C11_OneSortedQuestion ==
    (script = "survey" /\ applications.t = "dict")
        => /\ OneSortedQuestion(build_survey_spec(applications), applications)
           /\ applications.v = <<>>
                 => build_survey_spec(applications).v.spec[1].choices = <<>>

C11_Witness ==
    /\ script = "survey"
    /\ pc = "exited" /\ exitCode = 0
    /\ Len(applications.v) = 2
    /\ applications.v[1][1] = S_zeta /\ applications.v[2][1] = S_alpha
    /\ surveyRemote.spec.v.spec[1].choices = <<S_alpha, S_zeta>>

\* the five keys extract_extra_vars may emit
AllowList ==
    {K_k3s_context, K_esphome_namespace, K_esphome_deployment_name,
     K_esphome_timeout, K_esphome_no_logs}

\* the <<key, value>> pairs of a mapping
Pairs(d) == {d.v[k] : k \in DOMAIN d.v}

\* the pairs of the mapping whose key is allow-listed
Restriction(d) == {pair \in Pairs(d) : pair[1] \in AllowList}

\* the vars of the first play of a parsed playbook
PlayVars(doc) == DictGet(doc.v[1], K_vars, PyDict(<<>>))

\* the playbook file of a reconciliation has a vars mapping
HasVarsMapping(file) ==
    /\ ~Malformed(fs.files[PathName(file)])
    /\ PlayVars(fs.files[PathName(file)]).t = "dict"

\* C12: extract_extra_vars returns exactly the restriction of the vars mapping
\* to the five allow-listed keys: no other key (a key differing in case
\* included), every emitted key with the value it has in the input; this holds
\* of the function on every playbook of the directory and of the extra_vars of
\* every create or update request sent.
C12_ExtraVarsRestriction ==
    script = "templates" =>
        /\ \A n \in DOMAIN fs.files :
              (~Malformed(fs.files[n]) /\ PlayVars(fs.files[n]).t = "dict")
                  => LET emitted == extract_extra_vars(PlayVars(fs.files[n]))
                     IN /\ emitted.t = "dict"
                        /\ Pairs(emitted) = Restriction(PlayVars(fs.files[n]))
                        /\ Len(emitted.v) = Cardinality(Restriction(PlayVars(fs.files[n])))
        /\ \A k \in 1..Len(history) :
              (WriteSent(history[k]) /\ HasVarsMapping(history[k].file))
                  => {history[k].sent.extra_vars.v[j] : j \in DOMAIN history[k].sent.extra_vars.v}
                        = Restriction(PlayVars(fs.files[PathName(history[k].file)]))

C12_Witness ==
    /\ script = "templates"
    /\ \E k \in 1..Len(history) :
          /\ history[k].file = S_playbook_dir \o <<"/">> \o N_b
          /\ WriteSent(history[k])
          /\ history[k].sent.extra_vars.v = << <<K_k3s_context, PyStr(<<"c">>)>> >>
          /\ Cardinality(Keys(PlayVars(fs.files[N_b]))) = 3

\* a status check is still to be made only while fewer than PollAttempts were
\* made and none of them ended the loop
PollOpen ==
    /\ pc = "poll" => (script = "templates" /\ i < PollAttempts /\ syncOutcome = "none")
    /\ i <= PollAttempts

\* C13: the poll of the project sync is bounded: a status check is made only
\* while fewer than PollAttempts (10) were made and none of them answered
\* 'successful' or raised; every step of the loop is one more check; the check
\* that answers 'successful' leaves the loop; and the loop is entered only
\* from the sync request, so no check follows the loop's end.
C13_PollBounded ==
    /\ []PollOpen
    /\ [][ /\ pc = "poll" => (i' = i + 1 /\ pc' \in {"poll", "scan"})
           /\ (pc = "poll" /\ syncOutcome' = "successful") => pc' = "scan"
           /\ (pc = "poll" /\ i + 1 = PollAttempts) => pc' = "scan"
           /\ pc' = "poll" => pc \in {"sync", "poll"} ]_vars

C13_Witness ==
    /\ script = "templates"
    /\ pc = "scan"
    /\ i = PollAttempts
    /\ syncOutcome = "timeout"

\* number of finished reconciliations with this outcome
Outcomes(kind) == Cardinality({k \in 1..Len(history) : history[k].outcome = kind})

\* the names of the *.yaml files of the directory
YamlFiles == {n \in DOMAIN fs.files : EndsWith(n, S_yaml)}

\* C14: a problem of the project sync is never fatal: while the sync runs and
\* when it has ended (successful, not successful within the polls, or a failed
\* request) nothing is recorded as failed and the process has not exited; the
\* run then scans the directory and processes every playbook; and the failed
\* list and the exit code come from the playbooks and the directory alone,
\* whatever the outcome of the sync.
C14_SyncNeverFatal ==
    script = "templates" =>
        /\ pc \in {"sync", "poll", "scan"} =>
              /\ exitCode = -1
              /\ results = [created |-> <<>>, updated |-> <<>>, failed |-> <<>>]
        /\ pc = "scan" => syncOutcome \in {"successful", "timeout", "error"}
        /\ (pc \in {"summary", "exited"} /\ syncOutcome # "none" /\ fs.exists) =>
              /\ {PathName(playbooks[k]) : k \in DOMAIN playbooks} = YamlFiles
              /\ Len(playbooks) = Cardinality(YamlFiles)
              /\ Len(history) = Len(playbooks)
        /\ Len(results.failed) = Outcomes("failed")
        /\ (pc = "exited" /\ syncOutcome # "none") =>
              exitCode = IF ~fs.exists \/ Outcomes("failed") > 0 THEN 1 ELSE 0

C14_Witness ==
    /\ script = "templates"
    /\ pc = "exited"
    /\ syncOutcome = "error"
    /\ exitCode = 0
    /\ Len(history) = 2
    /\ Counted(history[1]) /\ Counted(history[2])

\* the credentials are linked as a second step of this reconciliation
LinkedSecondary(rec) ==
    /\ WriteSent(rec) => "credentials" \notin DOMAIN rec.sent
    /\ rec.nLink > 0 =>
          /\ rec.writeOk
          /\ rec.id # 0
          /\ rec.linkIds = {rec.id}
    /\ (WriteFailed(rec) \/ ~WriteSent(rec)) => (rec.nLink = 0 /\ rec.linkIds = {})

\* C15: credentials are linked strictly as a second step: the body of a create
\* or update request never has the credentials key, a link request is sent
\* only after the create or update of that template succeeded and names the
\* id of the template written, and after a failed create or update no link
\* request is sent.
C15_CredentialsLinkedSecondary ==
    /\ \A k \in 1..Len(history) : LinkedSecondary(history[k])
    /\ LinkedSecondary(cur)
    /\ pc = "link" => (cur.writeOk /\ template_id = cur.id)
    /\ pc = "write" => "credentials" \notin DOMAIN template_data
    /\ \A id \in 1..Len(templates) : "credentials" \notin DOMAIN templates[id].data

C15_Witness ==
    /\ script = "reconcile"
    /\ pc = "returned"
    /\ "credentials" \in DOMAIN desired /\ Len(desired.credentials) = 2
    /\ cur.nCreate = 1 /\ cur.writeOk
    /\ cur.nLink = 2 /\ cur.linkIds = {cur.id}
    /\ templates[cur.id].credentials = {5, 6}
    /\ "credentials" \notin DOMAIN cur.sent

\* the remote calls of a reconciliation are under way
Reconciling == pc \in {"find", "write", "link", "classify"}

\* once the directory is scanned the list is its *.yaml files in ascending
\* order; the finished reconciliations are those of the first files of the
\* list, in order, and the one under way is that of the next file
InScannedOrder ==
    script = "templates" =>
        /\ (pc \notin {"validate", "sync", "poll", "scan"} /\ syncOutcome # "none"
                /\ fs.exists) =>
              /\ {PathName(playbooks[k]) : k \in DOMAIN playbooks} = YamlFiles
              /\ \A a, b \in DOMAIN playbooks :
                    a < b => StrLess(PathName(playbooks[a]), PathName(playbooks[b]))
        /\ \A k \in 1..Len(history) : history[k].file = playbooks[k]
        /\ (Reconciling \/ pc = "process") =>
              (idx = Len(history) + 1 /\ idx <= Len(playbooks))
        /\ ~Reconciling => cur = NoRequests
        /\ (pc \in {"summary", "exited"} /\ playbooks # <<>>) =>
              Len(history) = Len(playbooks)

\* C16: playbooks are reconciled one at a time in ascending order of file
\* name: once the directory is scanned the list is the *.yaml files of the directory in strictly
\* ascending order, the k-th finished reconciliation is that of the k-th file
\* whatever the outcomes before it, the requests under way are those of the
\* one file after the finished ones, no request of a file is recorded before
\* its turn or after it is finished, and the list is not changed after the
\* scan.
C16_SequentialAscending ==
    /\ []InScannedOrder
    /\ [][script = "templates" =>
            /\ \/ history' = history
               \/ /\ Len(history') = Len(history) + 1
                  /\ SubSeq(history', 1, Len(history)) = history
            /\ pc # "scan" => playbooks' = playbooks
            /\ (cur' # cur /\ cur' # NoRequests) => Reconciling]_vars

C16_Witness ==
    /\ script = "templates"
    /\ pc = "exited"
    /\ Len(history) = 2
    /\ history[1].outcome = "failed"
    /\ history[1].find # "none"
    /\ Counted(history[2])
    /\ StrLess(PathName(history[1].file), PathName(history[2].file))

\* C17 (as claimed): when two playbooks of a run have the same template name
\* and both writes returned, the second reconciliation finds the template the
\* first wrote and updates it, the service then holds one template of that
\* name, with the second's data, and neither playbook is recorded as failed.
C17_LastWriterWins ==
    script = "templates" =>
        \A a, b \in 1..Len(history) :
            (a < b /\ WriteReturned(history[a]) /\ WriteReturned(history[b])
                /\ history[a].sent.name = history[b].sent.name)
            => /\ history[b].find = "found"
               /\ history[b].foundId = history[a].id
               /\ history[b].nUpdate = 1 /\ history[b].nCreate = 0
               /\ Cardinality(Matching(templates, history[b].sent.name)) = 1
               /\ \A f \in DOMAIN history[b].sent :
                     templates[history[b].id].data[f] = history[b].sent[f]
               /\ history[a].outcome # "failed" /\ history[b].outcome # "failed"

\* C20 (as claimed): no create request is sent for a name of which the
\* service holds a template at that time, and the service never holds more
\* than one template of a name.
C20_NoCreateForHeldName ==
    /\ \A k \in 1..Len(history) : history[k].nCreate = 1 => history[k].before = 0
    /\ cur.nCreate = 1 => cur.before = 0
    /\ \A a, b \in 1..Len(templates) :
          templates[a].data.name = templates[b].data.name => a = b

\* the requests of the survey updater, in the order of main
SurveySteps == <<"get_template", "get_survey", "push", "enable">>

\* the requests sent so far are the first steps of main, in order, each sent
\* only after the step before it succeeded
SurveyInOrder ==
    script = "survey" =>
        /\ Len(surveyLog) <= Len(SurveySteps)
        /\ \A j \in 1..Len(surveyLog) : surveyLog[j][1] = SurveySteps[j]
        /\ surveyLog # <<>> => (applications.t = "dict" /\ pc # "load")
        /\ (surveyLog # <<>> /\ surveyLog[1][2] = "error") =>
              (Len(surveyLog) = 1 /\ pc = "exited" /\ exitCode = 1)
        /\ Len(surveyLog) >= 3 => surveyLog[1][2] = "ok"
        /\ (Len(surveyLog) >= 3 /\ surveyLog[3][2] # "200") =>
              (Len(surveyLog) = 3 /\ pc = "exited" /\ exitCode # 0 /\ exitCode # -1)
        /\ Len(surveyLog) = 4 => surveyLog[3] = <<"push", "200">>
        /\ pc = "enable" => (Len(surveyLog) = 3 /\ surveyLog[3] = <<"push", "200">>)

\* C18: the survey updater loads the applications, then fetches the template,
\* pushes the built survey and enables it, in that order: no request is sent
\* before the applications are loaded, when the template cannot be fetched the
\* run ends with code 1 and no push, the enable request is sent only after a
\* push that succeeded, after a failed push the run ends with a code other
\* than 0 and no enable request, and the service's survey_enabled flag and
\* survey change only at the enable and the push.
C18_EnableOnlyAfterPush ==
    /\ []SurveyInOrder
    /\ [][script = "survey" =>
            /\ surveyRemote'.enabled # surveyRemote.enabled =>
                  /\ pc = "enable"
                  /\ surveyLog[3] = <<"push", "200">>
                  /\ surveyRemote'.enabled
            /\ surveyRemote'.spec # surveyRemote.spec => pc = "push"]_vars

C18_Witness ==
    /\ script = "survey"
    /\ pc = "exited" /\ exitCode = 0
    /\ Len(surveyLog) = 4
    /\ surveyLog[3] = <<"push", "200">>
    /\ surveyLog[4] = <<"enable", "ok">>
    /\ surveyRemote.enabled
    /\ applications.v # <<>>

\* the push of the survey was accepted by the service
PushAccepted == Len(surveyLog) >= 3 /\ surveyLog[3][2] \in {"200", "2xx"}

\* C19: a survey update replaces the survey: once the service has accepted
\* the push, its survey of the template is the one built from the loaded
\* applications, with exactly the one question and the applications' keys as
\* choices, whatever survey (none, one question, several questions) it held
\* before and whatever get_survey returned.
C19_SurveyReplaced ==
    (script = "survey" /\ PushAccepted)
        => /\ surveyRemote.spec = build_survey_spec(applications)
           /\ OneSortedQuestion(surveyRemote.spec, applications)

C19_Witness ==
    /\ script = "survey"
    /\ pc = "exited" /\ exitCode = 0
    /\ current_survey.t = "survey"
    /\ Len(current_survey.v.spec) = 2
    /\ current_survey.v.spec[1].choices = << <<"o", "l", "d">> >>
    /\ Len(surveyRemote.spec.v.spec) = 1
    /\ surveyRemote.spec.v.spec[1].choices = <<S_alpha>>

\* C21 (as claimed): at the end of a run every scanned playbook has exactly
\* one outcome among created, updated, failed and skipped: the three lists of
\* results and the skipped playbooks add up to the scanned ones, and a
\* playbook whose create or update returned is in created or updated.
C21_EveryDescriptorCounted ==
    (script = "templates" /\ pc \in {"summary", "exited"} /\ syncOutcome # "none"
        /\ fs.exists)
        => /\ Len(history) = Len(playbooks)
           /\ \A k \in 1..Len(history) :
                 /\ history[k].outcome \in {"created", "updated", "failed", "skipped"}
                 /\ WriteReturned(history[k]) => Counted(history[k])
           /\ Len(results.created) + Len(results.updated) + Len(results.failed)
                 + Outcomes("skipped") = Len(playbooks)

\* the windows with the title "Ansible Maintenance Window"
Titled(ws) == {w \in ws : w.title = PyStr(S_maintenance_title)}

\* delete_maintenance has returned
DeleteReturned == cfg.action = "enable" /\ success

\* C22: the enable action deletes the windows titled "Ansible Maintenance
\* Window" and only those: api.delete_maintenance is called only with ids of
\* windows of that title, every window with another title (another case, a
\* longer title, no title) stays as it was, no window is added, and once
\* delete_maintenance has returned every window of that title was deleted
\* and none of them remains.
C22_DeletesExactlyTitled ==
    (script = "maintenance" /\ cfg.action = "enable")
        => /\ deleteCalls \subseteq {w.id : w \in Titled(windows0)}
           /\ maintenances \subseteq windows0
           /\ windows0 \ Titled(windows0) \subseteq maintenances
           /\ windows0 \ maintenances \subseteq {w \in windows0 : w.id \in deleteCalls}
           /\ DeleteReturned =>
                 /\ Titled(maintenances) = {}
                 /\ maintenances = windows0 \ Titled(windows0)
                 /\ deleteCalls = {w.id : w \in Titled(windows0)}
                 /\ \A k \in DOMAIN listed : ~IsAnsibleWindow(listed[k]) => listed[k] \in maintenances

C22_Witness ==
    /\ script = "maintenance"
    /\ cfg.action = "enable"
    /\ pc = "exited" /\ exitCode = 0
    /\ success
    /\ Cardinality(Titled(windows0)) = 2
    /\ Cardinality(windows0) = 3
    /\ Cardinality(maintenances) = 1
    /\ Cardinality(deleteCalls) = 2
    /\ \E w \in maintenances : w.title.t = "str"

=============================================================================
